---- MODULE Spec2Model ----
(***************************************************************************)
(* One invocation of sparrow.handler: TwitterBot construction (config,     *)
(* logging, credential resolution, client), random tweet selection,        *)
(* validation, the retrying executor and the structured result.            *)
(*                                                                         *)
(* A tweet text is modelled by its length (the code reads only its         *)
(* truthiness and len()).  A credential value is modelled by the source    *)
(* it came from.  An exception is a record naming its type and where it    *)
(* was raised.  kms.decrypt succeeds or fails nondeterministically at each  *)
(* call; update_status fails on every call before call succeeds_at, an     *)
(* input of the invocation (0: it fails on every call).                    *)
(***************************************************************************)
EXTENDS Integers, Sequences, FiniteSets, TLC

\* ---- bounds of the model ------------------------------------------------
MaxAttempts == 3
MaxBackoff == 5
MaxDelay == 10

\* ---- program constants --------------------------------------------------
MaxTweetLen == 280

\* cred_mapping, in dict (insertion) order
Keys == <<"consumer_key", "consumer_secret", "access_token_key", "access_token_secret">>

KeySet == {Keys[i] : i \in 1..Len(Keys)}

EnvVar(key) ==
    CASE key = "consumer_key" -> "TWITTER_CONSUMER_KEY"
      [] key = "consumer_secret" -> "TWITTER_CONSUMER_SECRET"
      [] key = "access_token_key" -> "TWITTER_ACCESS_TOKEN"
      [] key = "access_token_secret" -> "TWITTER_ACCESS_TOKEN_SECRET"

EnvVarSet == {EnvVar(k) : k \in KeySet}

\* ---- values -------------------------------------------------------------
\* credentials[key]: the string stored in the credentials file
FileValue(key) == [src |-> "file", name |-> key, decrypted |-> FALSE]

\* os.environ[env_var]
EnvValue(env_var) == [src |-> "env", name |-> env_var, decrypted |-> FALSE]

\* plaintext.decode('utf-8') of a successful kms.decrypt
Decrypted(value) == [value EXCEPT !.decrypted = TRUE]

NoExc == [type |-> "None", at |-> "", key |-> "", call |-> 0]

Exc(type, at, key, call) == [type |-> type, at |-> at, key |-> key, call |-> call]

NoOutcome == [kind |-> "none", value |-> 0, exc |-> NoExc]

NoResponse == [statusCode |-> 0, success |-> FALSE, body |-> "none", error |-> NoExc]

Min(a, b) == IF a <= b THEN a ELSE b

\* Python's integer power for a non-negative exponent (0 ** 0 = 1)
RECURSIVE Pow(_, _)
Pow(b, e) == IF e <= 0 THEN 1 ELSE b * Pow(b, e - 1)

VARIABLES
    config_status,      \* what _load_config finds: ok / missing / malformed / incomplete
    use_kms,            \* config['twitter']['use_kms']
    max_attempts,       \* config['retry']['max_attempts']
    backoff_factor,     \* config['retry']['backoff_factor']
    max_delay,          \* config['retry']['max_delay']
    tweets,             \* config['bot']['tweets'], as the set of its texts' lengths
    creds_status,       \* the credentials file: present / absent / malformed
    file_keys,          \* the keys of the credentials file
    environ,            \* the credential environment variables that are set
    succeeds_at,        \* the call at which the remote operation first succeeds, 0 for never
    pc,                 \* position in handler
    idx,                \* position of the cred_mapping loop (1-based)
    result,             \* _load_credentials' result dict
    env_consulted,      \* environment variables looked up so far
    kms_calls,          \* keys whose file value was sent to kms.decrypt
    twitter_client,     \* None (not built), or the credentials the client was built with
    selected_tweet,     \* length of the selected text, -1 before selection
    attempt,            \* the retry loop's attempt index
    delay,              \* the delay computed at the last failed attempt
    log,                \* calls of the operation and sleeps, in order
    retry_outcome,      \* how _retry_with_backoff ended
    send_outcome,       \* what send_tweet (or send_random_tweet, with no tweets) returned or raised
    exc,                \* the exception propagating to handler's except clause
    response            \* what handler returned

vars == <<config_status, use_kms, max_attempts, backoff_factor, max_delay, tweets,
          creds_status, file_keys, environ, succeeds_at, pc, idx, result, env_consulted,
          kms_calls, twitter_client, selected_tweet, attempt, delay, log,
          retry_outcome, send_outcome, exc, response>>

inputs == <<config_status, use_kms, max_attempts, backoff_factor, max_delay, tweets,
            creds_status, file_keys, environ, succeeds_at>>

creds_vars == <<idx, result, env_consulted, kms_calls, twitter_client>>

retry_vars == <<attempt, delay, log, retry_outcome>>

\* ---- the log ------------------------------------------------------------
CallEvent(n, ok) == [ev |-> "call", n |-> n, ok |-> ok, delay |-> 0]

SleepEvent(d) == [ev |-> "sleep", n |-> 0, ok |-> FALSE, delay |-> d]

CallIdx == {i \in 1..Len(log) : log[i].ev = "call"}

SleepIdx == {i \in 1..Len(log) : log[i].ev = "sleep"}

Calls == Cardinality(CallIdx)

Sleeps == Cardinality(SleepIdx)

\* the delays slept, in order
SleepSeq == SelectSeq(log, LAMBDA e : e.ev = "sleep")

\* ---- decisions of the code ----------------------------------------------
\* (mutant) the loop makes one iteration too few
InRangeShort(a, n) == a < n - 1

\* sparrow.py:128  `for attempt in range(max_attempts)`: whether the loop
\* has an iteration for attempt index a
InRange(a, n) == a < n

\* (mutant) the last attempt is recognised one iteration late
IsLastAttemptLate(a, n) == a = n

\* sparrow.py:132  `if attempt == max_attempts - 1`
IsLastAttempt(a, n) == a = n - 1

\* (mutant) the delay grows linearly and is capped
DelayLinear(b, a, d) == Min(b * a, d)

\* sparrow.py:136  `delay = min(backoff_factor ** attempt, max_delay)`
Delay(b, a, d) == Min(Pow(b, a), d)

\* (mutant) the length limit is exclusive
ValidTweetExclusive(len) == ~(len = 0 \/ len >= MaxTweetLen)

\* sparrow.py:142  `if not tweet_text or len(tweet_text) > 280` is the rejection
ValidTweet(len) == ~(len = 0 \/ len > MaxTweetLen)

\* (mutant) the environment variable is looked up before the file
FieldResolutionEnvFirst(key, decrypt_ok) ==
    IF EnvVar(key) \in environ
    THEN [kind |-> "env", value |-> EnvValue(EnvVar(key))]
    ELSE IF key \in file_keys
         THEN IF use_kms
              THEN IF decrypt_ok
                   THEN [kind |-> "file", value |-> Decrypted(FileValue(key))]
                   ELSE [kind |-> "decrypt_error", value |-> FileValue(key)]
              ELSE [kind |-> "file", value |-> FileValue(key)]
         ELSE [kind |-> "missing", value |-> FileValue(key)]

\* (mutant) a failed decryption falls back to the environment variable
FieldResolutionDecryptFallback(key, decrypt_ok) ==
    IF key \in file_keys /\ ~(use_kms /\ ~decrypt_ok /\ EnvVar(key) \in environ)
    THEN IF use_kms
         THEN IF decrypt_ok
              THEN [kind |-> "file", value |-> Decrypted(FileValue(key))]
              ELSE [kind |-> "decrypt_error", value |-> FileValue(key)]
         ELSE [kind |-> "file", value |-> FileValue(key)]
    ELSE IF EnvVar(key) \in environ
         THEN [kind |-> "env", value |-> EnvValue(EnvVar(key))]
         ELSE [kind |-> "missing", value |-> FileValue(key)]

\* sparrow.py:95-102  the branch taken for one credential field; decrypt_ok is
\* the outcome of _decrypt_with_kms should it be called
FieldResolution(key, decrypt_ok) ==
    IF key \in file_keys
    THEN IF use_kms
         THEN IF decrypt_ok
              THEN [kind |-> "file", value |-> Decrypted(FileValue(key))]
              ELSE [kind |-> "decrypt_error", value |-> FileValue(key)]
         ELSE [kind |-> "file", value |-> FileValue(key)]
    ELSE IF EnvVar(key) \in environ
         THEN [kind |-> "env", value |-> EnvValue(EnvVar(key))]
         ELSE [kind |-> "missing", value |-> FileValue(key)]

\* sparrow.py:130  func(*args, **kwargs), here twitter_client.update_status:
\* whether its n-th call returns (otherwise it raises)
OpSucceeds(n) == n = succeeds_at

\* sparrow.py:175  'statusCode': 200 if success else 500
StatusCode(success) == IF success THEN 200 ELSE 500

NoSend == [kind |-> "none", value |-> FALSE]

EmptyDict == [k \in {} |-> FileValue(k)]

\* sparrow.py:20  self.twitter_client = None
NoClient == [built |-> FALSE, creds |-> EmptyDict]

\* ---- the inputs of one invocation ---------------------------------------
ConfigStatuses == {"ok", "missing", "malformed", "incomplete"}

CredsStatuses == {"present", "absent", "malformed"}

TweetLens == {0, 1, MaxTweetLen, MaxTweetLen + 1}

\* the retry policy, the operation and the tweets when they are not what varies
DefaultPolicy ==
    /\ max_attempts \in 0..2
    /\ backoff_factor = 2
    /\ max_delay = MaxDelay
    /\ succeeds_at \in {0, 1}
    /\ tweets \in {{}, {1}, {MaxTweetLen + 1}}

\* _load_config fails: nothing else is read
InitConfigBad ==
    /\ config_status \in ConfigStatuses \ {"ok"}
    /\ creds_status = "present"
    /\ file_keys = KeySet
    /\ environ = {}
    /\ use_kms = FALSE
    /\ DefaultPolicy

\* the credentials file cannot be loaded
InitCredsBad ==
    /\ config_status = "ok"
    /\ creds_status \in CredsStatuses \ {"present"}
    /\ file_keys = {}
    /\ environ \in SUBSET EnvVarSet
    /\ use_kms \in BOOLEAN
    /\ DefaultPolicy

\* every combination of credential sources
InitCredsWide ==
    /\ config_status = "ok"
    /\ creds_status = "present"
    /\ file_keys \in SUBSET KeySet
    /\ environ \in SUBSET EnvVarSet
    /\ use_kms \in BOOLEAN
    /\ DefaultPolicy

\* every retry policy, operation and tweet list
InitRetryWide ==
    /\ config_status = "ok"
    /\ creds_status = "present"
    /\ file_keys = KeySet
    /\ environ = {}
    /\ use_kms = FALSE
    /\ max_attempts \in (0 - 1)..MaxAttempts
    /\ backoff_factor \in (0 - 2)..MaxBackoff
    /\ max_delay \in (0 - 1)..MaxDelay
    /\ succeeds_at \in 0..MaxAttempts
    /\ tweets \in {{}, {1}, {MaxTweetLen}, TweetLens}

Init ==
    /\ InitConfigBad \/ InitCredsBad \/ InitCredsWide \/ InitRetryWide
    /\ pc = "load_config"
    /\ idx = 1
    /\ result = EmptyDict
    /\ env_consulted = {}
    /\ kms_calls = {}
    /\ twitter_client = NoClient
    /\ selected_tweet = 0 - 1
    /\ attempt = 0
    /\ delay = 0
    /\ log = <<>>
    /\ retry_outcome = NoOutcome
    /\ send_outcome = NoSend
    /\ exc = NoExc
    /\ response = NoResponse

\* ---- TwitterBot.__init__ -------------------------------------------------
\* an exception of __init__ propagates to handler's except clause
Raise(e) ==
    /\ exc' = e
    /\ pc' = "handler_except"

LoadConfig ==
    /\ pc = "load_config"
    /\ IF config_status = "missing"
       THEN Raise(Exc("FileNotFoundError", "_load_config", "", 0))
       ELSE IF config_status = "malformed"
            THEN Raise(Exc("ValueError", "_load_config", "", 0))
            ELSE pc' = "setup_logging" /\ exc' = exc
    /\ UNCHANGED <<inputs, creds_vars, retry_vars, selected_tweet, send_outcome, response>>

SetupLogging ==
    /\ pc = "setup_logging"
    /\ IF config_status = "incomplete"
       THEN Raise(Exc("KeyError", "_setup_logging", "logging", 0))
       ELSE pc' = "load_credentials" /\ exc' = exc
    /\ UNCHANGED <<inputs, creds_vars, retry_vars, selected_tweet, send_outcome, response>>

\* (mutant) an absent credentials file is read as an empty one
OpenCredentialsEnvFallback ==
    /\ pc = "load_credentials"
    /\ IF creds_status = "malformed"
       THEN Raise(Exc("JSONDecodeError", "_load_credentials", "", 0))
       ELSE pc' = "resolve_field" /\ exc' = exc
    /\ UNCHANGED <<inputs, creds_vars, retry_vars, selected_tweet, send_outcome, response>>

OpenCredentials ==
    /\ pc = "load_credentials"
    /\ IF creds_status = "absent"
       THEN Raise(Exc("FileNotFoundError", "_load_credentials", "", 0))
       ELSE IF creds_status = "malformed"
            THEN Raise(Exc("JSONDecodeError", "_load_credentials", "", 0))
            ELSE pc' = "resolve_field" /\ exc' = exc
    /\ UNCHANGED <<inputs, creds_vars, retry_vars, selected_tweet, send_outcome, response>>

ResolveField ==
    /\ pc = "resolve_field"
    /\ idx <= Len(Keys)
    /\ LET key == Keys[idx]
           calls_kms == key \in file_keys /\ use_kms
       IN \E decrypt_ok \in (IF calls_kms THEN BOOLEAN ELSE {TRUE}) :
            LET r == FieldResolution(key, decrypt_ok)
            IN /\ kms_calls' = (IF calls_kms THEN kms_calls \cup {key} ELSE kms_calls)
               /\ env_consulted' = (IF r.kind \in {"env", "missing"}
                                    THEN env_consulted \cup {EnvVar(key)}
                                    ELSE env_consulted)
               /\ IF r.kind \in {"file", "env"}
                  THEN /\ result' = result @@ (key :> r.value)
                       /\ idx' = idx + 1
                       /\ pc' = pc
                       /\ exc' = exc
                  ELSE /\ Raise(IF r.kind = "missing"
                                THEN Exc("ValueError", "Missing credential", key, 0)
                                ELSE Exc("KMSError", "_decrypt_with_kms", key, 0))
                       /\ UNCHANGED <<result, idx>>
    /\ UNCHANGED <<inputs, twitter_client, retry_vars, selected_tweet, send_outcome, response>>

ConstructClient ==
    /\ pc = "resolve_field"
    /\ idx > Len(Keys)
    /\ twitter_client' = [built |-> TRUE, creds |-> result]
    /\ pc' = "send_random_tweet"
    /\ UNCHANGED <<inputs, idx, result, env_consulted, kms_calls, retry_vars,
                   selected_tweet, send_outcome, exc, response>>

\* ---- send_random_tweet, send_tweet ---------------------------------------
SendRandomTweet ==
    /\ pc = "send_random_tweet"
    /\ IF tweets = {}
       THEN /\ send_outcome' = [kind |-> "return", value |-> FALSE]
            /\ pc' = "handler_return"
            /\ UNCHANGED selected_tweet
       ELSE /\ \E t \in tweets : selected_tweet' = t
            /\ pc' = "send_tweet"
            /\ UNCHANGED send_outcome
    /\ UNCHANGED <<inputs, creds_vars, retry_vars, exc, response>>

SendTweetValidate ==
    /\ pc = "send_tweet"
    /\ IF ValidTweet(selected_tweet)
       THEN /\ pc' = "retry_loop"
            /\ UNCHANGED <<send_outcome, exc>>
       ELSE /\ send_outcome' = [kind |-> "raise", value |-> FALSE]
            /\ Raise(Exc("ValueError", "send_tweet", "", 0))
    /\ UNCHANGED <<inputs, creds_vars, retry_vars, selected_tweet, response>>

\* ---- _retry_with_backoff -------------------------------------------------
\* range(max_attempts) is exhausted: the function falls off its end (None)
RetryFallThrough ==
    /\ pc = "retry_loop"
    /\ ~InRange(attempt, max_attempts)
    /\ retry_outcome' = [kind |-> "return", value |-> 0, exc |-> NoExc]
    /\ pc' = "send_tweet_end"
    /\ UNCHANGED <<inputs, creds_vars, attempt, delay, log, selected_tweet,
                   send_outcome, exc, response>>

\* one call of func, and the except clause up to the computation of the delay
Attempt ==
    /\ pc = "retry_loop"
    /\ InRange(attempt, max_attempts)
    /\ LET n == Calls + 1
           ok == OpSucceeds(n)
       IN   /\ log' = Append(log, CallEvent(n, ok))
            /\ IF ok
               THEN /\ retry_outcome' = [kind |-> "return", value |-> n, exc |-> NoExc]
                    /\ pc' = "send_tweet_end"
                    /\ UNCHANGED delay
               ELSE IF IsLastAttempt(attempt, max_attempts)
                    THEN /\ retry_outcome' = [kind |-> "raise", value |-> 0,
                                              exc |-> Exc("TwythonError", "update_status", "", n)]
                         /\ pc' = "send_tweet_end"
                         /\ UNCHANGED delay
                    ELSE /\ delay' = Delay(backoff_factor, attempt, max_delay)
                         /\ pc' = "retry_sleep"
                         /\ UNCHANGED retry_outcome
    /\ UNCHANGED <<inputs, creds_vars, attempt, selected_tweet, send_outcome, exc, response>>

\* time.sleep(delay): a negative length raises ValueError, inside the except
\* clause and so out of _retry_with_backoff
Sleep ==
    /\ pc = "retry_sleep"
    /\ IF delay < 0
       THEN /\ retry_outcome' = [kind |-> "raise", value |-> 0,
                                 exc |-> Exc("ValueError", "time.sleep", "", 0)]
            /\ pc' = "send_tweet_end"
            /\ UNCHANGED <<log, attempt>>
       ELSE /\ log' = Append(log, SleepEvent(delay))
            /\ attempt' = attempt + 1
            /\ pc' = "retry_loop"
            /\ UNCHANGED retry_outcome
    /\ UNCHANGED <<inputs, creds_vars, delay, selected_tweet, send_outcome, exc, response>>

\* (mutant) send_tweet lets the executor's exception through
SendTweetEndReraise ==
    /\ pc = "send_tweet_end"
    /\ IF retry_outcome.kind = "return"
       THEN /\ send_outcome' = [kind |-> "return", value |-> TRUE]
            /\ pc' = "handler_return"
            /\ UNCHANGED exc
       ELSE /\ send_outcome' = [kind |-> "raise", value |-> FALSE]
            /\ Raise(retry_outcome.exc)
    /\ UNCHANGED <<inputs, creds_vars, retry_vars, selected_tweet, response>>

\* send_tweet after the executor: return True, or catch and return False
SendTweetEnd ==
    /\ pc = "send_tweet_end"
    /\ send_outcome' = [kind |-> "return", value |-> (retry_outcome.kind = "return")]
    /\ pc' = "handler_return"
    /\ UNCHANGED <<inputs, creds_vars, retry_vars, selected_tweet, exc, response>>

\* ---- handler --------------------------------------------------------------
HandlerReturn ==
    /\ pc = "handler_return"
    /\ response' = [statusCode |-> StatusCode(send_outcome.value),
                    success |-> send_outcome.value,
                    body |-> "message", error |-> NoExc]
    /\ pc' = "done"
    /\ UNCHANGED <<inputs, creds_vars, retry_vars, selected_tweet, send_outcome, exc>>

HandlerExcept ==
    /\ pc = "handler_except"
    /\ response' = [statusCode |-> 500, success |-> FALSE, body |-> "error", error |-> exc]
    /\ pc' = "done"
    /\ UNCHANGED <<inputs, creds_vars, retry_vars, selected_tweet, send_outcome, exc>>

Next ==
    \/ LoadConfig
    \/ SetupLogging
    \/ OpenCredentials
    \/ ResolveField
    \/ ConstructClient
    \/ SendRandomTweet
    \/ SendTweetValidate
    \/ RetryFallThrough
    \/ Attempt
    \/ Sleep
    \/ SendTweetEnd
    \/ HandlerReturn
    \/ HandlerExcept

Spec == Init /\ [][Next]_vars

\* ======================= the retrying executor ============================
RetryDone == retry_outcome.kind # "none"

AllCallsFailed == \A i \in CallIdx : ~log[i].ok

\* the error raised by the n-th call of the operation
OpError(n) == Exc("TwythonError", "update_status", "", n)

SleepError == Exc("ValueError", "time.sleep", "", 0)

\* min(b^i, D), spelled out
CappedPower(i) == IF Pow(backoff_factor, i) <= max_delay THEN Pow(backoff_factor, i) ELSE max_delay

\* the zero-based attempts whose failure would be followed by a negative delay
NegativeDelayAt == {i \in 0..(max_attempts - 2) : CappedPower(i) < 0}

FirstNegativeDelay == CHOOSE i \in NegativeDelayAt : \A j \in NegativeDelayAt : i <= j

\* calls and sleeps alternate, starting and ending with a call
Alternating ==
    /\ \A i \in 1..Len(log) : (log[i].ev = "call") <=> (i % 2 = 1)
    /\ Len(log) > 0 => log[Len(log)].ev = "call"

\* C1 as stated: for every policy with max_attempts = N >= 1, an operation
\* that fails on every call is called exactly N times and the executor raises
\* the N-th call's error.
C1_AsStated ==
    (RetryDone /\ max_attempts >= 1 /\ succeeds_at = 0) =>
        /\ Calls = max_attempts
        /\ retry_outcome.kind = "raise"
        /\ retry_outcome.exc = OpError(max_attempts)

\* C1 amended: the same, for the policies none of whose delays min(b^i, D),
\* 0 <= i <= N-2, is negative; with a negative delay, time.sleep raises after
\* the first attempt it follows, and the executor raises that ValueError.
C1_ExhaustionRaisesLastError ==
    (RetryDone /\ max_attempts >= 1 /\ succeeds_at = 0) =>
        /\ AllCallsFailed
        /\ retry_outcome.kind = "raise"
        /\ IF NegativeDelayAt = {}
           THEN /\ Calls = max_attempts
                /\ retry_outcome.exc = OpError(max_attempts)
                /\ log[Len(log)] = CallEvent(max_attempts, FALSE)
           ELSE /\ Calls = FirstNegativeDelay + 1
                /\ retry_outcome.exc = SleepError

C1_Witness ==
    /\ RetryDone
    /\ max_attempts = 3
    /\ succeeds_at = 0
    /\ Calls = 3
    /\ retry_outcome.exc = OpError(3)

\* C2 as stated: for every policy with N >= 1 and 1 <= k <= N, an operation
\* failing on calls 1..k-1 and succeeding on call k is called exactly k times,
\* with k-1 sleeps, each between two calls, and the k-th call's result returned.
C2_AsStated ==
    (pc \in {"send_tweet_end", "handler_return", "done"} /\ selected_tweet # 0 - 1
       /\ ValidTweet(selected_tweet)
       /\ max_attempts >= 1 /\ succeeds_at \in 1..max_attempts) =>
        /\ Calls = succeeds_at
        /\ Sleeps = succeeds_at - 1
        /\ Alternating
        /\ retry_outcome = [kind |-> "return", value |-> succeeds_at, exc |-> NoExc]

\* C2 amended: the same, for the policies whose delays min(b^i, D),
\* 0 <= i <= k-2, are not negative; a negative delay before call k makes
\* time.sleep raise, and call k is never made.
C2_SuccessAtK ==
    (pc \in {"send_tweet_end", "handler_return", "done"} /\ selected_tweet # 0 - 1
       /\ ValidTweet(selected_tweet)
       /\ max_attempts >= 1 /\ succeeds_at \in 1..max_attempts) =>
        IF \A i \in 0..(succeeds_at - 2) : CappedPower(i) >= 0
        THEN /\ Calls = succeeds_at
             /\ Sleeps = succeeds_at - 1
             /\ Alternating
             /\ \A i \in CallIdx : log[i].ok <=> (log[i].n = succeeds_at)
             /\ retry_outcome = [kind |-> "return", value |-> succeeds_at, exc |-> NoExc]
        ELSE /\ Calls < succeeds_at
             /\ retry_outcome.kind = "raise"
             /\ retry_outcome.exc = SleepError

C2_Witness ==
    /\ RetryDone
    /\ max_attempts = 3
    /\ succeeds_at = 3
    /\ Calls = 3
    /\ Sleeps = 2
    /\ retry_outcome.kind = "return"

\* the delays slept so far
Delays == [j \in 1..Len(SleepSeq) |-> SleepSeq[j].delay]

\* C3 as stated: for every policy, the delay after the failed non-final
\* attempt i is min(b^i, D), never negative and never above D; {3, 2, 10} with
\* fail, fail, succeed sleeps [1, 2] and succeeds; {2, 5, 3} always failing
\* sleeps [1] and raises the second call's error.
C3_AsStated ==
    /\ pc = "retry_sleep" =>
          /\ delay = CappedPower(attempt)
          /\ delay >= 0
          /\ delay <= max_delay
    /\ (RetryDone /\ max_attempts = 3 /\ backoff_factor = 2 /\ max_delay = 10
          /\ succeeds_at = 3) =>
          Delays = <<1, 2>> /\ retry_outcome.kind = "return"
    /\ (RetryDone /\ max_attempts = 2 /\ backoff_factor = 5 /\ max_delay = 3
          /\ succeeds_at = 0) =>
          Delays = <<1>> /\ retry_outcome.exc = OpError(2)

\* C3 amended: the delay computed after the failed non-final attempt i is
\* min(b^i, D) and never above D; it is not negative when b >= 0 and D >= 0
\* (it is negative for D < 0, and for b < 0 at odd i), and every delay that is
\* actually slept is min(b^i, D) >= 0.  The two scenarios are as stated.
C3_DelayIsCappedPower ==
    /\ pc = "retry_sleep" =>
          /\ delay = CappedPower(attempt)
          /\ delay <= max_delay
          /\ (backoff_factor >= 0 /\ max_delay >= 0) => delay >= 0
    /\ \A j \in 1..Len(Delays) :
          Delays[j] = CappedPower(j - 1) /\ Delays[j] >= 0 /\ Delays[j] <= max_delay
    /\ (RetryDone /\ max_attempts = 3 /\ backoff_factor = 2 /\ max_delay = 10
          /\ succeeds_at = 3) =>
          Delays = <<1, 2>> /\ retry_outcome.kind = "return"
    /\ (RetryDone /\ max_attempts = 2 /\ backoff_factor = 5 /\ max_delay = 3
          /\ succeeds_at = 0) =>
          Delays = <<1>> /\ retry_outcome.exc = OpError(2)

C3_Witness ==
    /\ RetryDone
    /\ max_attempts = 3 /\ backoff_factor = 5 /\ max_delay = 3
    /\ succeeds_at = 3
    /\ Delays = <<1, 3>>

\* ======================= send_tweet ======================================
\* send_tweet was entered and its validation has run
Validated == selected_tweet # 0 - 1 /\ pc # "send_tweet"

\* C5: a text is accepted exactly when its length is in 1..280; a rejected
\* text is an error raised by send_tweet (not a False result), with no call
\* of the remote operation and no delay.
C5_Validation ==
    Validated =>
        IF selected_tweet \in 1..280
        THEN /\ send_outcome.kind # "raise"
             /\ exc = NoExc
        ELSE /\ send_outcome = [kind |-> "raise", value |-> FALSE]
             /\ exc = Exc("ValueError", "send_tweet", "", 0)
             /\ log = <<>>
             /\ retry_outcome = NoOutcome
             /\ pc \in {"handler_except", "done"}

C5_Witness ==
    /\ pc = "done"
    /\ selected_tweet = 281
    /\ tweets = {0, 1, 280, 281}
    /\ send_outcome.kind = "raise"
    /\ log = <<>>

\* C6: for a valid text and max_attempts >= 1, send_tweet never raises: it
\* returns False when every attempt failed (the executor's error is
\* absorbed) and True when an attempt succeeded.
C6_SendTweetAbsorbs ==
    (selected_tweet \in 1..280 /\ max_attempts >= 1) =>
        /\ send_outcome.kind # "raise"
        /\ exc = NoExc
        /\ pc # "handler_except"
        /\ pc \in {"handler_return", "done"} =>
              /\ send_outcome.kind = "return"
              /\ send_outcome.value <=> (\E i \in CallIdx : log[i].ok)
              /\ retry_outcome.kind = "raise" => ~send_outcome.value

C6_Witness ==
    /\ pc = "done"
    /\ selected_tweet = 280
    /\ max_attempts = 2
    /\ Calls = 2
    /\ retry_outcome.exc = OpError(2)
    /\ send_outcome = [kind |-> "return", value |-> FALSE]

\* ======================= credential resolution ===========================
MissingKeys == {k \in KeySet : k \notin file_keys /\ EnvVar(k) \notin environ}

\* the first missing field in cred_mapping order
FirstMissing == Keys[CHOOSE i \in 1..Len(Keys) :
                       Keys[i] \in MissingKeys /\ \A j \in 1..(i - 1) : Keys[j] \notin MissingKeys]

ErrorResponse == [statusCode |-> 500, success |-> FALSE, body |-> "error", error |-> exc]

C8_DecryptFailureIsFatal ==
    /\ \A k \in file_keys : EnvVar(k) \notin env_consulted
    /\ \A k \in kms_calls :
          k \in DOMAIN result \/ exc = Exc("KMSError", "_decrypt_with_kms", k, 0)
    /\ exc.at = "_decrypt_with_kms" =>
          /\ use_kms
          /\ exc.key = Keys[idx]
          /\ exc.key \in file_keys
          /\ DOMAIN result = {Keys[j] : j \in 1..(idx - 1)}
          /\ kms_calls = {Keys[j] : j \in 1..idx} \cap file_keys
          /\ env_consulted = {EnvVar(Keys[j]) : j \in {i \in 1..(idx - 1) : Keys[i] \notin file_keys}}
          /\ ~twitter_client.built
          /\ selected_tweet = 0 - 1
          /\ log = <<>>
          /\ send_outcome = NoSend
          /\ pc \in {"handler_except", "done"}
          /\ pc = "done" => response = ErrorResponse

C8_Witness ==
    /\ pc = "done"
    /\ exc = Exc("KMSError", "_decrypt_with_kms", "consumer_secret", 0)
    /\ environ = EnvVarSet
    /\ file_keys = KeySet
    /\ succeeds_at = 1

\* C9: with the credentials file absent, resolution fails at once with a
\* file-not-found error: no environment variable is consulted, even with all
\* four set, no client is built and no post is attempted.
C9_AbsentFileIsFatal ==
    (creds_status = "absent"
       /\ pc \notin {"load_config", "setup_logging", "load_credentials"}) =>
        /\ exc = Exc("FileNotFoundError", "_load_credentials", "", 0)
        /\ env_consulted = {}
        /\ kms_calls = {}
        /\ result = EmptyDict
        /\ ~twitter_client.built
        /\ selected_tweet = 0 - 1
        /\ log = <<>>
        /\ send_outcome = NoSend
        /\ pc \in {"handler_except", "done"}
        /\ pc = "done" => response = ErrorResponse

C9_Witness ==
    /\ pc = "done"
    /\ creds_status = "absent"
    /\ environ = EnvVarSet
    /\ succeeds_at = 1
    /\ response.statusCode = 500

\* ======================= handler =========================================
PostSucceeded == \E i \in CallIdx : log[i].ok

\* C7 as stated: handler always returns a structured result; it is 200 with
\* success exactly when a post attempt succeeded and 500 without success in
\* every other case.
C7_AsStated ==
    pc = "done" =>
        /\ response.body \in {"message", "error"}
        /\ (response.statusCode = 200 /\ response.success) <=> PostSucceeded
        /\ ~PostSucceeded => (response.statusCode = 500 /\ ~response.success)

\* C10 as stated: for every integer max_attempts, send_tweet returns True and
\* handler reports 200 / success only if the remote operation was called at
\* least once and its last call succeeded.
C10_AsStated ==
    (send_outcome = [kind |-> "return", value |-> TRUE] \/ response.success
       \/ response.statusCode = 200) =>
        /\ Calls >= 1
        /\ log[Len(log)].ev = "call"
        /\ log[Len(log)].ok

====
